---- MODULE Spec2Model ----
(***************************************************************************)
(* A model of the local compose backend (local/compose.go): Up, Down and   *)
(* the resource reconcilers ensureNetwork / ensureVolume, against an       *)
(* abstract container engine whose remote calls are atomic and may fail.   *)
(***************************************************************************)
EXTENDS Integers, Sequences, FiniteSets, TLC

VARIABLES
    project,        \* the *types.Project handed to Up (Up rewrites resource names in it)
    upPc,           \* position of Up: "images", "networks", "volumes", "graph", "services", "done"
    upErr,          \* the error Up returned ("nil" for none), meaningful when upPc = "done"
    netTodo,        \* keys of project.Networks the range loop has not visited yet
    volTodo,        \* keys of project.Volumes the range loop has not visited yet
    rtNetworks,     \* engine: the networks that exist, as records [name, labels]
    rtVolumes,      \* engine: the volumes that exist, as records [name, labels]
    rtContainers,   \* engine: the containers that exist, as records
    calls,          \* engine: number of calls received, per <<operation, target>>
    events,         \* progress writer: per event name, the statuses received, in order
    ensureLog,      \* the ensure calls made so far: definition, engine answers, returned error
    nodeState,      \* executor: per service "pending", "running", "done", "failed", "skipped"
    degree,         \* executor: per service, the number of unfinished prerequisites
    cancelled,      \* executor: the shared cancellation signal
    firstErr,       \* executor: the first failure observed ("nil" for none)
    errDetail,      \* the services a CyclicDependency error names ({} otherwise)
    downPc,         \* position of Down: "list", "walk", "wait", "netlist", "netwait", "done"
    downErr,        \* the error Down returned ("nil" for none), meaningful when downPc = "done"
    downProject,    \* the project Down reconstructed from the container labels
    rcList,         \* removeContainers, per service: the containers its ContainerList returned
    rcIdx,          \* removeContainers, per service: the loop's position (0 before the list)
    units,          \* the functions handed to eg.Go for containers, by <<service, iteration>>
    netUnits,       \* the functions handed to eg.Go for networks, by network name
    egErr,          \* errgroup: the first error a unit returned ("nil" for none)
    listed,         \* the containers removeContainers has listed so far
    labels,         \* the labels getContainerCreateOptions put on a container
    options,        \* the ProjectOptions loadProjectOptionsFromLabels built from them
    inherit,        \* the prior container handed to buildContainerMountOptions
    service,        \* the ServiceConfig handed to buildContainerMountOptions
    mounts,         \* the mount list buildContainerMountOptions returned
    statuses,       \* the container states handed to combinedStatus
    combined        \* the string combinedStatus returned

upVars == <<project, upPc, upErr, netTodo, volTodo, ensureLog>>

rtVars == <<rtNetworks, rtVolumes, rtContainers, calls, events>>

exVars == <<nodeState, degree, cancelled, firstErr, errDetail>>

downVars == <<downPc, downErr, downProject, rcList, rcIdx, units, netUnits, egErr, listed>>

createVars == <<labels, options, inherit, service, mounts>>

listVars == <<statuses, combined>>

vars == <<upVars, rtVars, exVars, downVars, createVars, listVars>>

(***************************************************************************)
(* Finite functions with a growing domain: call counters and event logs.   *)
(***************************************************************************)
Count(c, k) == IF k \in DOMAIN c THEN c[k] ELSE 0

Bump(c, k) == [x \in DOMAIN c \cup {k} |-> IF x = k THEN Count(c, k) + 1 ELSE c[x]]

EventsOf(ev, name) == IF name \in DOMAIN ev THEN ev[name] ELSE <<>>

Emit(ev, name, status) == [x \in DOMAIN ev \cup {name} |-> IF x = name THEN Append(EventsOf(ev, name), status) ELSE ev[x]]

(***************************************************************************)
(* The project model.                                                      *)
(***************************************************************************)
ProjectName == "p"

NetKeys == {"front", "back"}

VolKeys == {"data", "cache"}

Services == {"A", "B", "C", "D"}

\* fmt.Sprintf("%s_%s", project.Name, k)
ScopedName(p, k) == p \o "_" \o k

NetworkNameRescoped(p, k, n) == IF ~n.external THEN ScopedName(p, n.name) ELSE n.name

\* Up, lines 180-183: a non-external network still named after its key is
\* renamed <project>_<key>.
NetworkName(p, k, n) == IF ~n.external /\ n.name = k THEN ScopedName(p, k) ELSE n.name

\* Up, lines 194-197: a non-external volume with a non-empty name is renamed
\* <project>_<key>.
VolumeName(p, k, v) == IF ~v.external /\ v.name # "" THEN ScopedName(p, k) ELSE v.name

\* Up, lines 184-186 and 198-200: the labels added to the definition.
ResourceLabels(p, k) == [key |-> k, project |-> p]

NoLabels == [key |-> "", project |-> ""]

Present(rt, name) == \E r \in rt : r.name = name

(***************************************************************************)
(* ensureNetwork (lines 738-781).  The engine's answers are the inputs:    *)
(* insp is the answer of NetworkInspect ("ok", "notfound" or another       *)
(* "error"), createOk whether NetworkCreate succeeds.  The result is what  *)
(* the call leaves behind and the error it returns.                        *)
(***************************************************************************)
\* fmt.Sprintf("Network %q", n.Name), line 768 (the quotes are left out).
NetEventName(n) == "Network " \o n.name

ensureNetworkNoExternalCheck(n, insp, createOk, rt, ev, c) ==
    LET c1 == Bump(c, <<"NetworkInspect", n.name>>) IN
    IF insp = "ok" THEN [err |-> "nil", rt |-> rt, ev |-> ev, calls |-> c1]
    ELSE IF insp = "notfound" THEN
        LET ev1 == Emit(ev, NetEventName(n), "Creating")
            c2 == Bump(c1, <<"NetworkCreate", n.name>>)
        IN  IF createOk
            THEN [err |-> "nil", rt |-> rt \cup {[name |-> n.name, labels |-> n.labels]},
                  ev |-> Emit(ev1, NetEventName(n), "Created"), calls |-> c2]
            ELSE [err |-> "NetworkCreateFailed", rt |-> rt,
                  ev |-> Emit(ev1, NetEventName(n), "Error"), calls |-> c2]
    ELSE [err |-> "InspectError", rt |-> rt, ev |-> ev, calls |-> c1]

ensureNetwork(n, insp, createOk, rt, ev, c) ==
    LET c1 == Bump(c, <<"NetworkInspect", n.name>>) IN
    IF insp = "ok" THEN [err |-> "nil", rt |-> rt, ev |-> ev, calls |-> c1]
    ELSE IF insp = "notfound" THEN
        IF n.external
        THEN [err |-> "ExternalNetworkNotFound", rt |-> rt, ev |-> ev, calls |-> c1]
        ELSE
            LET ev1 == Emit(ev, NetEventName(n), "Creating")
                c2 == Bump(c1, <<"NetworkCreate", n.name>>)
            IN  IF createOk
                THEN [err |-> "nil", rt |-> rt \cup {[name |-> n.name, labels |-> n.labels]},
                      ev |-> Emit(ev1, NetEventName(n), "Created"), calls |-> c2]
                ELSE [err |-> "NetworkCreateFailed", rt |-> rt,
                      ev |-> Emit(ev1, NetEventName(n), "Error"), calls |-> c2]
    ELSE [err |-> "InspectError", rt |-> rt, ev |-> ev, calls |-> c1]

(***************************************************************************)
(* ensureVolume (lines 797-821).  The error of VolumeCreate is declared    *)
(* with := inside the IsNotFound block (line 806), so the `return err` of  *)
(* line 818 returns the outer err, the not-found error of VolumeInspect.   *)
(* The definition's External flag is not read.                             *)
(***************************************************************************)
\* fmt.Sprintf("Volume %q", volume.Name), line 802 (the quotes are left out).
VolEventName(v) == "Volume " \o v.name

\* An ensureVolume that returns nil once the volume is created.
ensureVolumeReturnsNil(v, insp, createOk, rt, ev, c) ==
    LET c1 == Bump(c, <<"VolumeInspect", v.name>>) IN
    IF insp = "ok" THEN [err |-> "nil", rt |-> rt, ev |-> ev, calls |-> c1]
    ELSE IF insp = "notfound" THEN
        LET ev1 == Emit(ev, VolEventName(v), "Creating")
            c2 == Bump(c1, <<"VolumeCreate", v.name>>)
        IN  IF createOk
            THEN [err |-> "nil", rt |-> rt \cup {[name |-> v.name, labels |-> v.labels]},
                  ev |-> Emit(ev1, VolEventName(v), "Created"), calls |-> c2]
            ELSE [err |-> "VolumeCreateFailed", rt |-> rt,
                  ev |-> Emit(ev1, VolEventName(v), "Error"), calls |-> c2]
    ELSE [err |-> "InspectError", rt |-> rt, ev |-> ev, calls |-> c1]

ensureVolume(v, insp, createOk, rt, ev, c) ==
    LET c1 == Bump(c, <<"VolumeInspect", v.name>>) IN
    IF insp = "ok" THEN [err |-> "nil", rt |-> rt, ev |-> ev, calls |-> c1]
    ELSE IF insp = "notfound" THEN
        LET ev1 == Emit(ev, VolEventName(v), "Creating")
            c2 == Bump(c1, <<"VolumeCreate", v.name>>)
        IN  IF createOk
            THEN [err |-> "NotFound", rt |-> rt \cup {[name |-> v.name, labels |-> v.labels]},
                  ev |-> Emit(ev1, VolEventName(v), "Created"), calls |-> c2]
            ELSE [err |-> "VolumeCreateFailed", rt |-> rt,
                  ev |-> Emit(ev1, VolEventName(v), "Error"), calls |-> c2]
    ELSE [err |-> "InspectError", rt |-> rt, ev |-> ev, calls |-> c1]

\* The answers the engine can give to an inspect by name: the truth, or a
\* failure of the call itself.
InspectAnswers(rt, name) == {IF Present(rt, name) THEN "ok" ELSE "notfound", "error"}

\* The answers the engine can give to the create that follows: none is asked
\* for unless the inspect answered not-found.
CreateAnswers(insp) == IF insp = "notfound" THEN BOOLEAN ELSE {FALSE}

(***************************************************************************)
(* The dependency graph and its ordered concurrent executor                *)
(* (InDependencyOrder / InReverseDependencyOrder).  deps[s] is the set of  *)
(* services s depends on.                                                  *)
(***************************************************************************)
Dependents(deps, s) == {t \in DOMAIN deps : s \in deps[t]}

\* Depth-first search from n with `path` the nodes in progress: the nodes of
\* a cycle reached from n, or {} when there is none.
RECURSIVE CycleFrom(_, _, _)
CycleFrom(deps, n, path) ==
    IF \E i \in 1..Len(path) : path[i] = n
    THEN LET first == CHOOSE i \in 1..Len(path) : path[i] = n
         IN  {path[j] : j \in first..Len(path)}
    ELSE LET found == {CycleFrom(deps, d, Append(path, n)) : d \in deps[n]} \ {{}}
         IN  IF found = {} THEN {} ELSE CHOOSE c \in found : TRUE

\* The graph builder's check: the services of a dependency cycle, {} for a DAG.
GraphCycle(deps) ==
    LET found == {CycleFrom(deps, s, <<>>) : s \in DOMAIN deps} \ {{}}
    IN  IF found = {} THEN {} ELSE CHOOSE c \in found : TRUE

\* What must have completed before s may start, and what s's completion
\* releases: dependencies in forward order, dependents in reverse order.
Prerequisites(dir, deps, s) == IF dir = "forward" THEN deps[s] ELSE Dependents(deps, s)

Released(dir, deps, s) == IF dir = "forward" THEN Dependents(deps, s) ELSE deps[s]

InitialDegree(dir, deps) == [s \in DOMAIN deps |-> Cardinality(Prerequisites(dir, deps, s))]

\* The nodes launched when the walk begins: those of degree zero.
LaunchRoots(deg) == [s \in DOMAIN deg |-> IF deg[s] = 0 THEN "running" ELSE "pending"]

\* Completion of s: the degree of each released neighbour is decremented.
DegreeAfter(dir, deps, deg, s) == [t \in DOMAIN deg |-> IF t \in Released(dir, deps, s) THEN deg[t] - 1 ELSE deg[t]]

\* A completion that launches nothing.
StateAfterSuccessNoLaunch(st, deg2, s, cancel) == [t \in DOMAIN st |-> IF t = s THEN "done" ELSE st[t]]

\* Successful completion of s: s is done, and each pending neighbour whose
\* degree reached zero is launched, or skipped once the walk is cancelled.
StateAfterSuccess(st, deg2, s, cancel) == [t \in DOMAIN st |-> IF t = s THEN "done" ELSE IF st[t] = "pending" /\ deg2[t] = 0 THEN (IF cancel THEN "skipped" ELSE "running") ELSE st[t]]

\* The walk is over when no unit is in flight; what never started is skipped.
StateAtReturn(st) == [t \in DOMAIN st |-> IF st[t] = "pending" THEN "skipped" ELSE st[t]]

Started(st, s) == st[s] \in {"running", "done", "failed"}

(***************************************************************************)
(* Up (lines 174-211).                                                     *)
(***************************************************************************)
\* The definition Up hands to ensureNetwork for key k (lines 180-186).
NetworkDef(p, k) == [name |-> NetworkName(p.name, k, p.networks[k]), external |-> p.networks[k].external, labels |-> ResourceLabels(p.name, k)]

\* The definition Up hands to ensureVolume for key k (lines 194-200).
VolumeDef(p, k) == [name |-> VolumeName(p.name, k, p.volumes[k]), external |-> p.volumes[k].external, labels |-> ResourceLabels(p.name, k)]

LogEntry(kind, k, def, insp, createOk, r) == [kind |-> kind, key |-> k, name |-> def.name, external |-> def.external, insp |-> insp, createOk |-> createOk, err |-> r.err]

AfterLoopEarly(todo, here, next) == next

\* Where Up goes after a loop over resources: on to the next phase once the
\* last key is visited.
AfterLoop(todo, here, next) == IF todo = {} THEN next ELSE here

\* ensureImagesExists (line 175): succeeds, or fails and Up returns its error.
UpEnsureImages ==
    /\ upPc = "images"
    /\ \E ok \in BOOLEAN :
        /\ upPc' = IF ok THEN AfterLoop(netTodo, "networks", AfterLoop(volTodo, "volumes", "graph")) ELSE "done"
        /\ upErr' = IF ok THEN "nil" ELSE "ImageError"
    /\ UNCHANGED <<project, netTodo, volTodo, ensureLog, rtVars, exVars, downVars, createVars, listVars>>

\* One iteration of the range over project.Networks (lines 179-191); Go visits
\* the keys of a map in no fixed order.
UpNetwork(k) ==
    /\ upPc = "networks"
    /\ k \in netTodo
    /\ LET n == NetworkDef(project, k) IN
       \E insp \in InspectAnswers(rtNetworks, n.name) : \E createOk \in CreateAnswers(insp) :
           LET r == ensureNetwork(n, insp, createOk, rtNetworks, events, calls) IN
           /\ project' = [project EXCEPT !.networks[k].name = n.name]
           /\ rtNetworks' = r.rt
           /\ events' = r.ev
           /\ calls' = r.calls
           /\ ensureLog' = Append(ensureLog, LogEntry("network", k, n, insp, createOk, r))
           /\ netTodo' = netTodo \ {k}
           /\ upErr' = r.err
           /\ upPc' = IF r.err # "nil" THEN "done" ELSE AfterLoop(netTodo \ {k}, "networks", AfterLoop(volTodo, "volumes", "graph"))
    /\ UNCHANGED <<volTodo, rtVolumes, rtContainers, exVars, downVars, createVars, listVars>>

\* One iteration of the range over project.Volumes (lines 193-205).
UpVolume(k) ==
    /\ upPc = "volumes"
    /\ k \in volTodo
    /\ LET v == VolumeDef(project, k) IN
       \E insp \in InspectAnswers(rtVolumes, v.name) : \E createOk \in CreateAnswers(insp) :
           LET r == ensureVolume(v, insp, createOk, rtVolumes, events, calls) IN
           /\ project' = [project EXCEPT !.volumes[k].name = v.name]
           /\ rtVolumes' = r.rt
           /\ events' = r.ev
           /\ calls' = r.calls
           /\ ensureLog' = Append(ensureLog, LogEntry("volume", k, v, insp, createOk, r))
           /\ volTodo' = volTodo \ {k}
           /\ upErr' = r.err
           /\ upPc' = IF r.err # "nil" THEN "done" ELSE AfterLoop(volTodo \ {k}, "volumes", "graph")
    /\ UNCHANGED <<netTodo, rtNetworks, rtContainers, exVars, downVars, createVars, listVars>>

UpDirectionReverse == "reverse"

\* Up walks the graph with InDependencyOrder (line 207): forward order.
UpDirection == "forward"

\* InDependencyOrder begins (line 207): the graph is built and checked for
\* cycles, then the services without dependencies are launched.
UpBuildGraph ==
    /\ upPc = "graph"
    /\ LET cyc == GraphCycle(project.deps)
           deg == InitialDegree(UpDirection, project.deps)
       IN  IF cyc # {}
           THEN /\ upPc' = "done"
                /\ upErr' = "CyclicDependency"
                /\ errDetail' = cyc
                /\ UNCHANGED <<nodeState, degree>>
           ELSE /\ upPc' = "services"
                /\ degree' = deg
                /\ nodeState' = LaunchRoots(deg)
                /\ UNCHANGED <<upErr, errDetail>>
    /\ UNCHANGED <<project, netTodo, volTodo, ensureLog, rtVars, cancelled, firstErr, downVars, createVars, listVars>>

\* ensureService (line 208), as far as the engine sees it: on success the
\* service's container exists.
ServiceContainer(p, s) == [id |-> p.name \o "_" \o s \o "_1", project |-> p.name, service |-> s, files |-> "compose.yaml"]

\* The unit of service s finishes: its action returned nil or an error.
UpServiceDone(s) ==
    /\ upPc = "services"
    /\ s \in DOMAIN nodeState
    /\ nodeState[s] = "running"
    /\ \E ok \in BOOLEAN :
        LET deg2 == DegreeAfter(UpDirection, project.deps, degree, s) IN
        IF ok
        THEN /\ rtContainers' = rtContainers \cup {ServiceContainer(project, s)}
             /\ degree' = deg2
             /\ nodeState' = StateAfterSuccess(nodeState, deg2, s, cancelled)
             /\ UNCHANGED <<cancelled, firstErr>>
        ELSE /\ nodeState' = [nodeState EXCEPT ![s] = "failed"]
             /\ cancelled' = TRUE
             /\ firstErr' = IF firstErr = "nil" THEN "ServiceError" ELSE firstErr
             /\ UNCHANGED <<rtContainers, degree>>
    /\ UNCHANGED <<upVars, rtNetworks, rtVolumes, calls, events, errDetail, downVars, createVars, listVars>>

UpResultDropped(err) == "nil"

\* Line 210: Up returns the error of InDependencyOrder.
UpResult(err) == err

\* Every launched unit has been joined: InDependencyOrder returns the first
\* failure, and Up returns it (lines 207-210).
UpReturn ==
    /\ upPc = "services"
    /\ \A s \in DOMAIN nodeState : nodeState[s] # "running"
    /\ nodeState' = StateAtReturn(nodeState)
    /\ upErr' = UpResult(firstErr)
    /\ upPc' = "done"
    /\ UNCHANGED <<project, netTodo, volTodo, ensureLog, rtVars, degree, cancelled, firstErr, errDetail, downVars, createVars, listVars>>

(***************************************************************************)
(* The projects and engine states Up is run on.                            *)
(***************************************************************************)
\* A -> B, A -> C, B -> D, C -> D: B and C depend on A, D on B and on C.
Diamond == [s \in Services |-> CASE s = "A" -> {} [] s = "B" -> {"A"} [] s = "C" -> {"A"} [] OTHER -> {"B", "C"}]

\* A -> B -> C -> A, with D depending on nothing.
Cycle3 == [s \in Services |-> CASE s = "A" -> {"C"} [] s = "B" -> {"A"} [] s = "C" -> {"B"} [] OTHER -> {}]

\* Two roots A and B; C depends on A, D on B.
TwoChains == [s \in Services |-> CASE s = "C" -> {"A"} [] s = "D" -> {"B"} [] OTHER -> {}]

\* A project without services.
NoServices == [s \in {} |-> {}]

Graphs == {Diamond, Cycle3, TwoChains, NoServices}

Projects == {[name |-> ProjectName, networks |-> [k \in NetKeys |-> [name |-> k, external |-> k \in extN]], volumes |-> [k \in VolKeys |-> [name |-> k, external |-> k \in extV]], deps |-> g] : extN \in SUBSET NetKeys, extV \in SUBSET VolKeys, g \in Graphs}

\* A resource that exists before Up: one this project created on an earlier
\* run (with its labels), or an external one (with none of them).
Existing(def) == [name |-> def.name, labels |-> IF def.external THEN NoLabels ELSE def.labels]

InitEngine ==
    /\ \E pn \in SUBSET NetKeys : rtNetworks = {Existing(NetworkDef(project, k)) : k \in pn}
    /\ \E pv \in SUBSET VolKeys : rtVolumes = {Existing(VolumeDef(project, k)) : k \in pv}
    /\ rtContainers = {}
    /\ calls = <<>>
    /\ events = <<>>

InitDownIdle ==
    /\ downPc = "idle"
    /\ downErr = "nil"
    /\ downProject = [name |-> "", services |-> <<>>]
    /\ rcList = <<>>
    /\ rcIdx = <<>>
    /\ units = <<>>
    /\ netUnits = <<>>
    /\ egErr = "nil"
    /\ listed = {}

\* Nothing is being listed.
InitListIdle ==
    /\ statuses = <<>>
    /\ combined = <<>>

\* Nothing is being created.
InitCreateIdle ==
    /\ labels = <<>>
    /\ options = <<>>
    /\ inherit = <<>>
    /\ service = <<>>
    /\ mounts = <<>>

InitExecutor ==
    /\ nodeState = [s \in Services |-> "pending"]
    /\ degree = [s \in Services |-> 0]
    /\ cancelled = FALSE
    /\ firstErr = "nil"
    /\ errDetail = {}

Init ==
    /\ project \in Projects
    /\ upPc = "images"
    /\ upErr = "nil"
    /\ netTodo = NetKeys
    /\ volTodo = VolKeys
    /\ ensureLog = <<>>
    /\ InitEngine
    /\ InitExecutor
    /\ InitDownIdle
    /\ InitCreateIdle
    /\ InitListIdle

Next ==
    \/ UpEnsureImages
    \/ \E k \in NetKeys : UpNetwork(k)
    \/ \E k \in VolKeys : UpVolume(k)
    \/ UpBuildGraph
    \/ \E s \in Services : UpServiceDone(s)
    \/ UpReturn

Spec == Init /\ [][Next]_vars

(***************************************************************************)
(* A caller that ensures one resource of the project again and again, the  *)
(* definition unchanged between the calls, whatever the calls return.      *)
(***************************************************************************)
MaxEnsureCalls == 3

SameTarget(kind, k) == IF ensureLog = <<>> THEN TRUE ELSE ensureLog[1].kind = kind /\ ensureLog[1].key = k

CallEnsureNetwork(k) ==
    /\ Len(ensureLog) < MaxEnsureCalls
    /\ SameTarget("network", k)
    /\ LET n == NetworkDef(project, k) IN
       \E insp \in InspectAnswers(rtNetworks, n.name) : \E createOk \in CreateAnswers(insp) :
           LET r == ensureNetwork(n, insp, createOk, rtNetworks, events, calls) IN
           /\ project' = [project EXCEPT !.networks[k].name = n.name]
           /\ rtNetworks' = r.rt
           /\ events' = r.ev
           /\ calls' = r.calls
           /\ ensureLog' = Append(ensureLog, LogEntry("network", k, n, insp, createOk, r))
    /\ UNCHANGED <<upPc, upErr, netTodo, volTodo, rtVolumes, rtContainers, exVars, downVars, createVars, listVars>>

CallEnsureVolume(k) ==
    /\ Len(ensureLog) < MaxEnsureCalls
    /\ SameTarget("volume", k)
    /\ LET v == VolumeDef(project, k) IN
       \E insp \in InspectAnswers(rtVolumes, v.name) : \E createOk \in CreateAnswers(insp) :
           LET r == ensureVolume(v, insp, createOk, rtVolumes, events, calls) IN
           /\ project' = [project EXCEPT !.volumes[k].name = v.name]
           /\ rtVolumes' = r.rt
           /\ events' = r.ev
           /\ calls' = r.calls
           /\ ensureLog' = Append(ensureLog, LogEntry("volume", k, v, insp, createOk, r))
    /\ UNCHANGED <<upPc, upErr, netTodo, volTodo, rtNetworks, rtContainers, exVars, downVars, createVars, listVars>>

InitEnsure ==
    /\ project \in {p \in Projects : p.deps = Diamond}
    /\ upPc = "caller"
    /\ upErr = "nil"
    /\ netTodo = {}
    /\ volTodo = {}
    /\ ensureLog = <<>>
    /\ InitEngine
    /\ InitExecutor
    /\ InitDownIdle
    /\ InitCreateIdle
    /\ InitListIdle

NextEnsure ==
    \/ \E k \in NetKeys : CallEnsureNetwork(k)
    \/ \E k \in VolKeys : CallEnsureVolume(k)

SpecEnsure == InitEnsure /\ [][NextEnsure]_vars

(***************************************************************************)
(* Down (lines 223-261), removeContainers (263-290), ensureNetworkDown     *)
(* (783-795) and projectFromContainerLabels (292-325).                     *)
(***************************************************************************)
DownProjectName == "p"

\* projectFilter / serviceFilter: what ContainerList returns for them.
ProjectContainers(rt, p) == {c \in rt : c.project = p}

ServiceContainers(rt, p, s) == {c \in rt : c.project = p /\ c.service = s}

ProjectNetworks(rt, p) == {n \in rt : n.labels.project = p}

\* The engine returns a list in an order of its own.
Orderings(S) == {q \in [1..Cardinality(S) -> S] : \A i, j \in 1..Cardinality(S) : i # j => q[i] # q[j]}

\* loadProjectOptionsFromLabels (lines 327-337): the config paths recorded on
\* a container.
ConfigPaths(c) == <<c.files>>

\* Lines 309-317: the project built when the files cannot be loaded again,
\* one Service entry appended per container.
FakeProject(name, cs) == [name |-> name, services |-> [i \in 1..Len(cs) |-> [name |-> cs[i].service, dependsOn |-> {}]]]

\* cli.ProjectFromOptions (line 319): what the loader returns for the
\* recorded files, web depending on db.
LoadedProject(name) == [name |-> name, services |-> <<[name |-> "db", dependsOn |-> {}], [name |-> "web", dependsOn |-> {"db"}]>>]

\* The dependency graph of a project: per service name, what it depends on.
GraphOf(p) == [n \in {p.services[i].name : i \in DOMAIN p.services} |-> UNION {p.services[i].dependsOn : i \in {j \in DOMAIN p.services : p.services[j].name = n}}]

\* A project that is reported as an error when nothing carries its label.
NoContainerResultNotFound == "ProjectNotFound"

\* Lines 301-303 and 228-230: no container carries the label, so the
\* project is nil with a nil error, which is what Down returns.
NoContainerResult == "nil"

\* projectFromContainerLabels and the return of lines 228-230: ContainerList
\* fails, finds nothing, or yields the project.
DownReconstruct ==
    /\ downPc = "list"
    /\ \E listOk \in BOOLEAN : \E cs \in Orderings(ProjectContainers(rtContainers, DownProjectName)) : \E loadOk \in BOOLEAN :
        /\ calls' = Bump(calls, <<"ContainerList", DownProjectName>>)
        /\ IF ~listOk
           THEN downPc' = "done" /\ downErr' = "ListError" /\ UNCHANGED downProject
           ELSE IF Len(cs) = 0
           THEN downPc' = "done" /\ downErr' = NoContainerResult /\ UNCHANGED downProject
           ELSE IF ConfigPaths(cs[1])[1] = "-"
           THEN downPc' = "graph" /\ downProject' = FakeProject(DownProjectName, cs) /\ UNCHANGED downErr
           ELSE IF loadOk
           THEN downPc' = "graph" /\ downProject' = LoadedProject(DownProjectName) /\ UNCHANGED downErr
           ELSE downPc' = "done" /\ downErr' = "LoadError" /\ UNCHANGED downProject
    /\ UNCHANGED <<upVars, rtNetworks, rtVolumes, rtContainers, events, exVars, rcList, rcIdx, units, netUnits, egErr, listed, createVars, listVars>>

\* Down walks the graph with InReverseDependencyOrder (line 232).
DownDirection == "reverse"

\* InReverseDependencyOrder begins: the graph is built and checked, and the
\* services nothing depends on are launched.
DownBuildGraph ==
    /\ downPc = "graph"
    /\ LET deps == GraphOf(downProject)
           cyc == GraphCycle(deps)
           deg == InitialDegree(DownDirection, deps)
       IN  IF cyc # {}
           THEN /\ downPc' = "done"
                /\ downErr' = "CyclicDependency"
                /\ errDetail' = cyc
                /\ UNCHANGED <<nodeState, degree, rcIdx>>
           ELSE /\ downPc' = "walk"
                /\ degree' = deg
                /\ nodeState' = LaunchRoots(deg)
                /\ rcIdx' = [s \in DOMAIN deps |-> 0]
                /\ UNCHANGED <<downErr, errDetail>>
    /\ UNCHANGED <<upVars, rtVars, cancelled, firstErr, downProject, rcList, units, netUnits, egErr, listed, createVars, listVars>>

\* The action of service s returned nil: s is done and what it releases starts.
ActionReturnsNil(s) ==
    LET deg2 == DegreeAfter(DownDirection, GraphOf(downProject), degree, s) IN
    /\ degree' = deg2
    /\ nodeState' = StateAfterSuccess(nodeState, deg2, s, cancelled)
    /\ UNCHANGED <<cancelled, firstErr>>

\* removeContainers, lines 264-269: the ContainerList of service s.  An
\* error is the action's error; an empty list makes the action return nil.
DownActionList(s) ==
    /\ downPc = "walk"
    /\ s \in DOMAIN nodeState
    /\ nodeState[s] = "running"
    /\ s \notin DOMAIN rcList
    /\ calls' = Bump(calls, <<"ContainerList", s>>)
    /\ \E listOk \in BOOLEAN : \E cs \in Orderings(ServiceContainers(rtContainers, downProject.name, s)) :
        IF ~listOk
        THEN /\ nodeState' = [nodeState EXCEPT ![s] = "failed"]
             /\ cancelled' = TRUE
             /\ firstErr' = IF firstErr = "nil" THEN "ListError" ELSE firstErr
             /\ UNCHANGED <<degree, rcList, listed>>
        ELSE /\ rcList' = [x \in DOMAIN rcList \cup {s} |-> IF x = s THEN cs ELSE rcList[x]]
             /\ listed' = listed \cup {cs[i].id : i \in DOMAIN cs}
             /\ IF Len(cs) = 0 THEN ActionReturnsNil(s) ELSE UNCHANGED <<nodeState, degree, cancelled, firstErr>>
    /\ UNCHANGED <<upVars, rtNetworks, rtVolumes, rtContainers, events, errDetail, downPc, downErr, downProject, rcIdx, units, netUnits, egErr, createVars, listVars>>

\* removeContainers, lines 270-288: one iteration of the loop.  The loop
\* variable takes the next container and a function is handed to eg.Go; after
\* the last iteration the action returns nil (line 289).
DownActionLaunch(s) ==
    /\ downPc = "walk"
    /\ s \in DOMAIN nodeState
    /\ nodeState[s] = "running"
    /\ s \in DOMAIN rcList
    /\ rcIdx[s] < Len(rcList[s])
    /\ rcIdx' = [rcIdx EXCEPT ![s] = @ + 1]
    /\ units' = [u \in DOMAIN units \cup {<<s, rcIdx[s] + 1>>} |-> IF u = <<s, rcIdx[s] + 1>> THEN [pc |-> "start", name |-> ""] ELSE units[u]]
    /\ IF rcIdx[s] + 1 = Len(rcList[s]) THEN ActionReturnsNil(s) ELSE UNCHANGED <<nodeState, degree, cancelled, firstErr>>
    /\ UNCHANGED <<upVars, rtVars, errDetail, downPc, downErr, downProject, rcList, netUnits, egErr, listed, createVars, listVars>>

\* What the function launched in iteration u[2] reads when it evaluates
\* `container`: the closure captures the loop variable itself (line 270), so
\* it reads whatever the loop has put there by then.
LoopVar(u) == rcList[u[1]][rcIdx[u[1]]]

\* getContainerName (lines 213-221).
ContainerName(c) == c.id

FirstError(e, err) == IF e = "nil" THEN err ELSE e

\* Lines 272-273: the event name is computed and Stopping is emitted.
UnitStart(u) ==
    /\ u \in DOMAIN units
    /\ units[u].pc = "start"
    /\ LET name == "Container " \o ContainerName(LoopVar(u)) IN
       /\ events' = Emit(events, name, "Stopping")
       /\ units' = [units EXCEPT ![u] = [pc |-> "stop", name |-> name]]
    /\ UNCHANGED <<upVars, rtNetworks, rtVolumes, rtContainers, calls, exVars, downPc, downErr, downProject, rcList, rcIdx, netUnits, egErr, listed, createVars, listVars>>

\* Lines 274-279: ContainerStop.  It fails for a container that does not
\* exist, and may fail for one that does.
UnitStop(u) ==
    /\ u \in DOMAIN units
    /\ units[u].pc = "stop"
    /\ LET id == LoopVar(u).id IN
       /\ calls' = Bump(calls, <<"ContainerStop", id>>)
       /\ \E ok \in (IF \E c \in rtContainers : c.id = id THEN BOOLEAN ELSE {FALSE}) :
           IF ok
           THEN /\ events' = Emit(events, units[u].name, "Removing")
                /\ units' = [units EXCEPT ![u].pc = "remove"]
                /\ UNCHANGED egErr
           ELSE /\ events' = Emit(events, units[u].name, "Error")
                /\ units' = [units EXCEPT ![u].pc = "done"]
                /\ egErr' = FirstError(egErr, "StopError")
    /\ UNCHANGED <<upVars, rtNetworks, rtVolumes, rtContainers, exVars, downPc, downErr, downProject, rcList, rcIdx, netUnits, listed, createVars, listVars>>

\* Lines 280-286: ContainerRemove.
UnitRemove(u) ==
    /\ u \in DOMAIN units
    /\ units[u].pc = "remove"
    /\ LET id == LoopVar(u).id IN
       /\ calls' = Bump(calls, <<"ContainerRemove", id>>)
       /\ \E ok \in (IF \E c \in rtContainers : c.id = id THEN BOOLEAN ELSE {FALSE}) :
           IF ok
           THEN /\ rtContainers' = {c \in rtContainers : c.id # id}
                /\ events' = Emit(events, units[u].name, "Removed")
                /\ UNCHANGED egErr
           ELSE /\ events' = Emit(events, units[u].name, "Error")
                /\ egErr' = FirstError(egErr, "RemoveError")
                /\ UNCHANGED rtContainers
       /\ units' = [units EXCEPT ![u].pc = "done"]
    /\ UNCHANGED <<upVars, rtNetworks, rtVolumes, exVars, downPc, downErr, downProject, rcList, rcIdx, netUnits, listed, createVars, listVars>>

\* InReverseDependencyOrder returns (lines 232-239): with an error Down
\* returns it at once, otherwise Down goes on to eg.Wait.
DownWalkReturn ==
    /\ downPc = "walk"
    /\ \A s \in DOMAIN nodeState : nodeState[s] # "running"
    /\ nodeState' = StateAtReturn(nodeState)
    /\ downErr' = firstErr
    /\ downPc' = IF firstErr # "nil" THEN "done" ELSE "wait"
    /\ UNCHANGED <<upVars, rtVars, degree, cancelled, firstErr, errDetail, downProject, rcList, rcIdx, units, netUnits, egErr, listed, createVars, listVars>>

\* eg.Wait that returns without waiting.
AllUnitsDoneSkipped == TRUE

AllUnitsDone == \A u \in DOMAIN units : units[u].pc = "done"

\* Lines 240-258: eg.Wait returns once every function handed to eg.Go has
\* returned; with no error the project's networks are listed and one
\* ensureNetworkDown is handed to eg.Go per network.
DownWait ==
    /\ downPc = "wait"
    /\ AllUnitsDone
    /\ IF egErr # "nil"
       THEN downPc' = "done" /\ downErr' = egErr /\ UNCHANGED <<netUnits, calls>>
       ELSE /\ calls' = Bump(calls, <<"NetworkList", DownProjectName>>)
            /\ \E listOk \in BOOLEAN :
                IF listOk
                THEN /\ netUnits' = [n \in {x.name : x \in ProjectNetworks(rtNetworks, DownProjectName)} |-> "launched"]
                     /\ downPc' = "netwait"
                     /\ UNCHANGED downErr
                ELSE downPc' = "done" /\ downErr' = "NetworkListError" /\ UNCHANGED netUnits
    /\ UNCHANGED <<upVars, rtNetworks, rtVolumes, rtContainers, events, exVars, downProject, rcList, rcIdx, units, egErr, listed, createVars, listVars>>

\* ensureNetworkDown (lines 783-795).
NetUnit(n) ==
    /\ n \in DOMAIN netUnits
    /\ netUnits[n] = "launched"
    /\ calls' = Bump(calls, <<"NetworkRemove", n>>)
    /\ \E ok \in (IF Present(rtNetworks, n) THEN BOOLEAN ELSE {FALSE}) :
        IF ok
        THEN /\ rtNetworks' = {x \in rtNetworks : x.name # n}
             /\ events' = Emit(Emit(events, "Network " \o n, "Removing"), "Network " \o n, "Removed")
             /\ UNCHANGED egErr
        ELSE /\ events' = Emit(Emit(events, "Network " \o n, "Removing"), "Network " \o n, "Error")
             /\ egErr' = FirstError(egErr, "NetworkRemoveError")
             /\ UNCHANGED rtNetworks
    /\ netUnits' = [netUnits EXCEPT ![n] = "done"]
    /\ UNCHANGED <<upVars, rtVolumes, rtContainers, exVars, downPc, downErr, downProject, rcList, rcIdx, units, listed, createVars, listVars>>

\* Line 260: the last eg.Wait.
DownReturn ==
    /\ downPc = "netwait"
    /\ \A n \in DOMAIN netUnits : netUnits[n] = "done"
    /\ downPc' = "done"
    /\ downErr' = egErr
    /\ UNCHANGED <<upVars, rtVars, exVars, downProject, rcList, rcIdx, units, netUnits, egErr, listed, createVars, listVars>>

\* The engine is not held still while Down runs: the container a function is
\* about to call ContainerStop (line 274) or ContainerRemove (line 280) on
\* can be gone by the time the call is issued.
EngineLosesContainer(id) ==
    /\ \E u \in DOMAIN units : units[u].pc \in {"stop", "remove"} /\ LoopVar(u).id = id
    /\ \E c \in rtContainers : c.id = id
    /\ rtContainers' = {c \in rtContainers : c.id # id}
    /\ UNCHANGED <<upVars, rtNetworks, rtVolumes, calls, events, exVars, downVars, createVars, listVars>>

\* The same between the NetworkList of line 245 and the NetworkRemove of
\* line 786.
EngineLosesNetwork(n) ==
    /\ n \in DOMAIN netUnits
    /\ netUnits[n] = "launched"
    /\ Present(rtNetworks, n)
    /\ rtNetworks' = {x \in rtNetworks : x.name # n}
    /\ UNCHANGED <<upVars, rtVolumes, rtContainers, calls, events, exVars, downVars, createVars, listVars>>

(***************************************************************************)
(* The engine states Down is run on.                                       *)
(***************************************************************************)
ContainerIds == {"c1", "c2", "c3", "c4"}

ContainerPool(f) == {[id |-> "c1", project |-> "p", service |-> "web", files |-> f], [id |-> "c2", project |-> "p", service |-> "web", files |-> f], [id |-> "c3", project |-> "p", service |-> "db", files |-> f], [id |-> "c4", project |-> "q", service |-> "db", files |-> "compose.yaml"]}

NetworkPool == {[name |-> "p_front", labels |-> ResourceLabels("p", "front")], [name |-> "shared", labels |-> NoLabels]}

InitDown ==
    /\ project = [name |-> DownProjectName, networks |-> <<>>, volumes |-> <<>>, deps |-> <<>>]
    /\ upPc = "idle"
    /\ upErr = "nil"
    /\ netTodo = {}
    /\ volTodo = {}
    /\ ensureLog = <<>>
    /\ \E f \in {"-", "compose.yaml"} : rtContainers \in SUBSET ContainerPool(f)
    /\ rtNetworks \in SUBSET NetworkPool
    /\ rtVolumes = {}
    /\ calls = <<>>
    /\ events = <<>>
    /\ nodeState = <<>>
    /\ degree = <<>>
    /\ cancelled = FALSE
    /\ firstErr = "nil"
    /\ errDetail = {}
    /\ downPc = "list"
    /\ downErr = "nil"
    /\ downProject = [name |-> "", services |-> <<>>]
    /\ rcList = <<>>
    /\ rcIdx = <<>>
    /\ units = <<>>
    /\ netUnits = <<>>
    /\ egErr = "nil"
    /\ listed = {}
    /\ InitCreateIdle
    /\ InitListIdle

Nodes == {"db", "web"}

Iterations == 1..2

NextDown ==
    \/ DownReconstruct
    \/ DownBuildGraph
    \/ \E s \in Nodes : DownActionList(s)
    \/ \E s \in Nodes : DownActionLaunch(s)
    \/ \E s \in Nodes, i \in Iterations : UnitStart(<<s, i>>)
    \/ \E s \in Nodes, i \in Iterations : UnitStop(<<s, i>>)
    \/ \E s \in Nodes, i \in Iterations : UnitRemove(<<s, i>>)
    \/ DownWalkReturn
    \/ DownWait
    \/ \E n \in {x.name : x \in NetworkPool} : NetUnit(n)
    \/ DownReturn
    \/ \E id \in ContainerIds : EngineLosesContainer(id)
    \/ \E n \in {x.name : x \in NetworkPool} : EngineLosesNetwork(n)

SpecDown == InitDown /\ [][NextDown]_vars

(***************************************************************************)
(* The label codec: the labels getContainerCreateOptions writes (lines     *)
(* 511-520) and loadProjectOptionsFromLabels reads back (lines 327-337).   *)
(* A path is a sequence of characters, so that joining, splitting and      *)
(* taking the base name are computed on it as the library computes them.   *)
(***************************************************************************)
MaxFiles == 2

MaxPathLen == 3

PathChars == {"a", "-", "/", ","}

Paths == UNION {[1..n -> PathChars] : n \in 1..MaxPathLen}

FileLists == UNION {[1..n -> Paths] : n \in 1..MaxFiles}

\* strings.Join(elems, ",").
RECURSIVE Join(_)
Join(elems) == IF elems = <<>> THEN <<>> ELSE IF Len(elems) = 1 THEN elems[1] ELSE elems[1] \o <<",">> \o Join(Tail(elems))

\* strings.Split(str, ","): the fields between the commas, one more than
\* there are commas.
RECURSIVE Split(_)
Split(str) ==
    IF \A i \in DOMAIN str : str[i] # ","
    THEN <<str>>
    ELSE LET i == CHOOSE k \in DOMAIN str : str[k] = "," /\ \A j \in 1..(k - 1) : str[j] # ","
         IN  <<SubSeq(str, 1, i - 1)>> \o Split(SubSeq(str, i + 1, Len(str)))

\* filepath.Base: trailing separators are dropped, then everything up to the
\* last separator; "." for an empty path and "/" for one of separators only.
RECURSIVE StripSlashes(_)
StripSlashes(path) == IF path # <<>> /\ path[Len(path)] = "/" THEN StripSlashes(SubSeq(path, 1, Len(path) - 1)) ELSE path

LastElement(path) ==
    IF \A i \in DOMAIN path : path[i] # "/"
    THEN path
    ELSE LET i == CHOOSE k \in DOMAIN path : path[k] = "/" /\ \A j \in (k + 1)..Len(path) : path[j] # "/"
         IN  SubSeq(path, i + 1, Len(path))

Base(path) ==
    IF path = <<>> THEN <<".">>
    ELSE IF StripSlashes(path) = <<>> THEN <<"/">>
    ELSE LastElement(StripSlashes(path))

\* Lines 511-520: the labels of a container of project p that depend on p.
ContainerLabels(p) == [projectLabel |-> p.name, workingDirLabel |-> p.workingDir, configFilesLabel |-> Join(p.composeFiles)]

\* Lines 327-337: the options built from the labels of a container.
loadProjectOptionsFromLabels(l) ==
    LET relativePathConfigFiles == Split(l.configFilesLabel)
    IN  [Name |-> l.projectLabel, WorkingDir |-> l.workingDirLabel, ConfigPaths |-> [i \in DOMAIN relativePathConfigFiles |-> Base(relativePathConfigFiles[i])]]

\* getContainerCreateOptions computes the labels of a new container.
EncodeLabels ==
    /\ upPc = "create"
    /\ labels = <<>>
    /\ labels' = ContainerLabels(project)
    /\ UNCHANGED <<upVars, rtVars, exVars, downVars, options, inherit, service, mounts, listVars>>

\* A later invocation reads them back from the container.
DecodeLabels ==
    /\ upPc = "create"
    /\ labels # <<>>
    /\ options = <<>>
    /\ options' = loadProjectOptionsFromLabels(labels)
    /\ UNCHANGED <<upVars, rtVars, exVars, downVars, labels, inherit, service, mounts, listVars>>

WorkingDirs == {"/srv/app", "/srv/other"}

InitLabels ==
    /\ \E wd \in WorkingDirs, fs \in FileLists : project = [name |-> ProjectName, workingDir |-> wd, composeFiles |-> fs]
    /\ upPc = "create"
    /\ upErr = "nil"
    /\ netTodo = {}
    /\ volTodo = {}
    /\ ensureLog = <<>>
    /\ rtNetworks = {}
    /\ rtVolumes = {}
    /\ rtContainers = {}
    /\ calls = <<>>
    /\ events = <<>>
    /\ InitExecutor
    /\ InitDownIdle
    /\ InitCreateIdle
    /\ InitListIdle

NextLabels == EncodeLabels \/ DecodeLabels

SpecLabels == InitLabels /\ [][NextLabels]_vars

(***************************************************************************)
(* buildContainerMountOptions (lines 612-656): the mounts of a container   *)
(* created for service s, inheriting from the container it replaces.       *)
(***************************************************************************)
Targets == <<"/data", "/tmp", "/cache">>

\* filepath.IsAbs and filepath.Join on paths written as character sequences
\* (the relative paths used here hold no "." or ".." element to clean away).
IsAbs(path) == path # <<>> /\ path[1] = "/"

FilepathJoin(dir, path) == dir \o <<"/">> \o path

\* moby.Container.Mounts: what the engine reports for a mount of the prior
\* container at destination t.  For a volume, Source is the host directory
\* the engine keeps it in and Name is the volume.
PriorMountsAt(t) ==
    {[Type |-> "bind", Name |-> "", Source |-> <<"/", "h">>, Destination |-> t, RW |-> TRUE],
     [Type |-> "volume", Name |-> "V", Source |-> <<"/", "v", "a", "r", "/", "V">>, Destination |-> t, RW |-> FALSE],
     [Type |-> "tmpfs", Name |-> "", Source |-> <<>>, Destination |-> t, RW |-> TRUE]}

\* types.ServiceConfig.Volumes: what a service can declare at target t.
DeclaredVolumesAt(t) ==
    {[Type |-> "bind", Source |-> <<"/", "n">>, Target |-> t, ReadOnly |-> FALSE],
     [Type |-> "bind", Source |-> <<"c">>, Target |-> t, ReadOnly |-> TRUE],
     [Type |-> "volume", Source |-> <<"W">>, Target |-> t, ReadOnly |-> FALSE],
     [Type |-> "tmpfs", Source |-> <<>>, Target |-> t, ReadOnly |-> FALSE]}

\* The lists with at most one entry per target, in the order of Targets.
RECURSIVE PriorMountLists(_)
PriorMountLists(ts) ==
    IF ts = <<>> THEN {<<>>}
    ELSE LET rest == PriorMountLists(Tail(ts))
         IN  rest \cup {<<x>> \o r : x \in PriorMountsAt(Head(ts)), r \in rest}

RECURSIVE DeclaredVolumeLists(_)
DeclaredVolumeLists(ts) ==
    IF ts = <<>> THEN {<<>>}
    ELSE LET rest == DeclaredVolumeLists(Tail(ts))
         IN  rest \cup {<<x>> \o r : x \in DeclaredVolumesAt(Head(ts)), r \in rest}

NotTmpfs(m) == m.Type # "tmpfs"

\* Lines 620-630: the mount built from a mount of the prior container.
InheritedMount(m) == [Type |-> m.Type, Source |-> IF m.Type = "volume" THEN <<m.Name>> ELSE m.Source, Target |-> m.Destination, ReadOnly |-> ~m.RW]

\* Lines 615-632: the mounts taken over from the prior container, none when
\* inherit is nil.
InheritedMounts(inh) ==
    IF inh.nil THEN <<>>
    ELSE LET kept == SelectSeq(inh.Mounts, NotTmpfs)
         IN  [i \in DOMAIN kept |-> InheritedMount(kept[i])]

\* Lines 638-653: the mount built from a declared volume.
DeclaredMount(p, v) == [Type |-> v.Type, Source |-> IF v.Type = "bind" /\ ~IsAbs(v.Source) THEN FilepathJoin(p.workingDir, v.Source) ELSE v.Source, Target |-> v.Target, ReadOnly |-> v.ReadOnly]

\* A builder that adds every declared volume, inherited target or not.
buildContainerMountOptionsNoSkip(p, s, inh) == InheritedMounts(inh) \o [i \in DOMAIN s.Volumes |-> DeclaredMount(p, s.Volumes[i])]

buildContainerMountOptions(p, s, inh) ==
    LET first == InheritedMounts(inh)
        inherited == {first[i].Target : i \in DOMAIN first}
        NotInherited(v) == v.Target \notin inherited
        added == SelectSeq(s.Volumes, NotInherited)
    IN  first \o [i \in DOMAIN added |-> DeclaredMount(p, added[i])]

BuildMounts ==
    /\ upPc = "create"
    /\ mounts' = buildContainerMountOptions(project, service, inherit)
    /\ upPc' = "created"
    /\ UNCHANGED <<project, upErr, netTodo, volTodo, ensureLog, rtVars, exVars, downVars, labels, options, inherit, service, listVars>>

InitMounts ==
    /\ project = [name |-> ProjectName, workingDir |-> <<"/", "w">>]
    /\ upPc = "create"
    /\ upErr = "nil"
    /\ netTodo = {}
    /\ volTodo = {}
    /\ ensureLog = <<>>
    /\ rtNetworks = {}
    /\ rtVolumes = {}
    /\ rtContainers = {}
    /\ calls = <<>>
    /\ events = <<>>
    /\ InitExecutor
    /\ InitDownIdle
    /\ labels = <<>>
    /\ options = <<>>
    /\ inherit \in {[nil |-> TRUE, Mounts |-> <<>>]} \cup {[nil |-> FALSE, Mounts |-> ms] : ms \in PriorMountLists(Targets)}
    /\ service \in {[Volumes |-> vs] : vs \in DeclaredVolumeLists(Targets)}
    /\ mounts = <<>>
    /\ InitListIdle

NextMounts == BuildMounts

SpecMounts == InitMounts /\ [][NextMounts]_vars

(***************************************************************************)
(* combinedStatus (lines 471-492), applied by containersToStacks (lines    *)
(* 447-461) to the states of a project's containers.  Strings are          *)
(* sequences of characters, so that sorting and formatting are computed.   *)
(***************************************************************************)
MaxStatuses == 4

Exited == <<"e", "x", "i", "t", "e", "d">>

Running == <<"r", "u", "n", "n", "i", "n", "g">>

Restarting == <<"r", "e", "s", "t", "a", "r", "t", "i", "n", "g">>

\* moby.Container.State values.
ContainerStates == {Exited, Running, Restarting}

\* containerToState (lines 463-469): the states of up to MaxStatuses containers.
StatusLists == UNION {[1..n -> ContainerStates] : n \in 0..MaxStatuses}

\* The order of bytes among lower-case letters.
Letters == <<"a", "b", "c", "d", "e", "f", "g", "h", "i", "j", "k", "l", "m", "n", "o", "p", "q", "r", "s", "t", "u", "v", "w", "x", "y", "z">>

Rank(ch) == CHOOSE i \in DOMAIN Letters : Letters[i] = ch

\* Go's < on strings: byte-wise lexicographic.
RECURSIVE StringLess(_, _)
StringLess(a, b) ==
    IF b = <<>> THEN FALSE
    ELSE IF a = <<>> THEN TRUE
    ELSE IF a[1] = b[1] THEN StringLess(Tail(a), Tail(b))
    ELSE Rank(a[1]) < Rank(b[1])

\* sort.Strings (line 482), by insertion.
RECURSIVE InsertSorted(_, _)
InsertSorted(sorted, k) ==
    IF sorted = <<>> THEN <<k>>
    ELSE IF StringLess(k, sorted[1]) THEN <<k>> \o sorted
    ELSE <<sorted[1]>> \o InsertSorted(Tail(sorted), k)

\* A sort that leaves the keys as they were appended.
SortStringsKeepOrder(keys) == keys

RECURSIVE SortStrings(_)
SortStrings(keys) == IF keys = <<>> THEN <<>> ELSE InsertSorted(SortStrings(SubSeq(keys, 1, Len(keys) - 1)), keys[Len(keys)])

\* %d of fmt.Sprintf: decimal digits.
DigitChars == <<"0", "1", "2", "3", "4", "5", "6", "7", "8", "9">>

RECURSIVE Decimal(_)
Decimal(n) == IF n < 10 THEN <<DigitChars[n + 1]>> ELSE Decimal(n \div 10) \o <<DigitChars[(n % 10) + 1]>>

\* fmt.Sprintf("%s(%d)", status, nb), line 489.
StatusEntry(status, nb) == status \o <<"(">> \o Decimal(nb) \o <<")">>

\* Lines 472-481: the counting loop.  Each status not seen before is
\* appended to keys, and its counter is incremented.
RECURSIVE CountStatuses(_)
CountStatuses(sts) ==
    IF sts = <<>> THEN [nbByStatus |-> <<>>, keys |-> <<>>]
    ELSE LET before == CountStatuses(SubSeq(sts, 1, Len(sts) - 1))
             status == sts[Len(sts)]
         IN  [nbByStatus |-> Bump(before.nbByStatus, status),
              keys |-> IF status \in DOMAIN before.nbByStatus THEN before.keys ELSE Append(before.keys, status)]

\* Lines 483-491: the result is built key by key, ", " between entries.
RECURSIVE JoinEntries(_, _)
JoinEntries(keys, nbByStatus) ==
    IF keys = <<>> THEN <<>>
    ELSE LET result == JoinEntries(SubSeq(keys, 1, Len(keys) - 1), nbByStatus)
             status == keys[Len(keys)]
         IN  (IF result # <<>> THEN result \o <<",", " ">> ELSE result) \o StatusEntry(status, nbByStatus[status])

combinedStatus(sts) ==
    LET counted == CountStatuses(sts)
    IN  JoinEntries(SortStrings(counted.keys), counted.nbByStatus)

\* containersToStacks, line 457: the Status of a stack.
CombineStatus ==
    /\ upPc = "list"
    /\ combined' = combinedStatus(statuses)
    /\ upPc' = "listed"
    /\ UNCHANGED <<project, upErr, netTodo, volTodo, ensureLog, rtVars, exVars, downVars, createVars, statuses>>

InitStatus ==
    /\ project = [name |-> ProjectName]
    /\ upPc = "list"
    /\ upErr = "nil"
    /\ netTodo = {}
    /\ volTodo = {}
    /\ ensureLog = <<>>
    /\ rtNetworks = {}
    /\ rtVolumes = {}
    /\ rtContainers = {}
    /\ calls = <<>>
    /\ events = <<>>
    /\ InitExecutor
    /\ InitDownIdle
    /\ InitCreateIdle
    /\ statuses \in StatusLists
    /\ combined = <<>>

NextStatus == CombineStatus

SpecStatus == InitStatus /\ [][NextStatus]_vars

(***************************************************************************)
(* Properties of Up.                                                       *)
(***************************************************************************)
EnsuredOk(kind, k) == \E i \in DOMAIN ensureLog : ensureLog[i].kind = kind /\ ensureLog[i].key = k /\ ensureLog[i].err = "nil"

AnyServiceStarted == (\E s \in DOMAIN nodeState : Started(nodeState, s)) \/ rtContainers # {}

\* C1: in Up, no service action is invoked until ensure has returned
\* successfully for every network and every volume of the project.
C1_EnsureBeforeServices ==
    AnyServiceStarted => /\ \A k \in NetKeys : EnsuredOk("network", k)
                         /\ \A k \in VolKeys : EnsuredOk("volume", k)
                         /\ netTodo = {} /\ volTodo = {}

\* C1 witness: a service is running after Up created a network.
C1_Witness ==
    /\ \E s \in DOMAIN nodeState : nodeState[s] = "running"
    /\ \E i \in DOMAIN ensureLog : ensureLog[i].kind = "network" /\ ensureLog[i].insp = "notfound"

\* C2: in forward order a service's action never starts before the actions
\* of all its dependencies have completed; in the diamond, B and C are both
\* started as soon as A has completed, and D only once both are done.
C2_ForwardOrder ==
    /\ \A s \in DOMAIN nodeState : Started(nodeState, s) => \A d \in project.deps[s] : nodeState[d] = "done"
    /\ (project.deps = Diamond /\ nodeState["A"] = "done") => (Started(nodeState, "B") /\ Started(nodeState, "C"))
    /\ (project.deps = Diamond /\ Started(nodeState, "D")) => (nodeState["B"] = "done" /\ nodeState["C"] = "done")

\* C2 witness: in the diamond, D runs after B and C ran concurrently to completion.
C2_Witness == project.deps = Diamond /\ nodeState["D"] = "running" /\ nodeState["B"] = "done" /\ nodeState["C"] = "done"

\* C5: in the diamond, if B's action fails then D's action is never invoked,
\* C's action still runs to completion, and Up returns an error.
C5_PartialFailure ==
    (project.deps = Diamond /\ nodeState["B"] = "failed") =>
        /\ ~Started(nodeState, "D")
        /\ Started(nodeState, "C")
        /\ upPc = "done" => /\ nodeState["C"] \in {"done", "failed"}
                            /\ nodeState["D"] = "skipped"
                            /\ upErr # "nil"

\* C5 witness: Up has returned, B failed, C completed.
C5_Witness == project.deps = Diamond /\ upPc = "done" /\ nodeState["B"] = "failed" /\ nodeState["C"] = "done"

NothingCreated == rtContainers = {} /\ \A c \in DOMAIN calls : c[1] \notin {"NetworkCreate", "VolumeCreate"}

\* C6: when the service dependencies contain a cycle, Up fails with a
\* CyclicDependency error naming the participating services before any
\* remote call is issued: no network, volume or container is created.
C6_CycleBeforeRemoteCalls ==
    (GraphCycle(project.deps) # {} /\ upPc = "done" /\ upErr = "CyclicDependency") =>
        /\ errDetail = {"A", "B", "C"}
        /\ NothingCreated

VolumeEntries == {i \in DOMAIN ensureLog : ensureLog[i].kind = "volume"}

NetworkEntries == {i \in DOMAIN ensureLog : ensureLog[i].kind = "network"}

CreateCalls(e) == Count(calls, <<IF e.kind = "network" THEN "NetworkCreate" ELSE "VolumeCreate", e.name>>)

EventsFor(e) == EventsOf(events, (IF e.kind = "network" THEN "Network " ELSE "Volume ") \o e.name)

\* C7: ensuring a non-external volume that is absent, the create call
\* succeeding, emits Creating then Created and returns no error, so that Up
\* goes on.
C7_VolumeCreatedReturnsNil ==
    \A i \in VolumeEntries :
        LET e == ensureLog[i] IN
        (~e.external /\ e.insp = "notfound" /\ e.createOk) =>
            /\ EventsFor(e) = <<"Creating", "Created">>
            /\ e.err = "nil"
            /\ ~(upPc = "done" /\ i = Len(ensureLog))

\* C8: ensuring an external volume that is absent fails with an
\* external-resource-missing error and issues no create call.
C8_ExternalVolumeNeverCreated ==
    \A i \in VolumeEntries :
        LET e == ensureLog[i] IN
        (e.external /\ e.insp = "notfound") =>
            /\ e.err = "ExternalVolumeNotFound"
            /\ CreateCalls(e) = 0
            /\ ~Present(rtVolumes, e.name)

\* C9: ensuring an external network that is absent fails with an
\* external-resource-missing error, issues no create call and emits no
\* Creating event; ensuring a network that is present is a no-op.
C9_ExternalNetworkMissing ==
    \A i \in NetworkEntries :
        LET e == ensureLog[i] IN
        /\ (e.external /\ e.insp = "notfound") =>
               /\ e.err = "ExternalNetworkNotFound"
               /\ CreateCalls(e) = 0
               /\ EventsFor(e) = <<>>
               /\ ~Present(rtNetworks, e.name)
               /\ upPc = "done" /\ upErr = e.err
        /\ e.insp = "ok" =>
               /\ e.err = "nil"
               /\ CreateCalls(e) = 0
               /\ EventsFor(e) = <<>>
               /\ Present(rtNetworks, e.name)

\* C9 witness: Up found one network present and then an external one absent.
C9_Witness ==
    /\ \E i \in NetworkEntries : ensureLog[i].insp = "ok"
    /\ \E i \in NetworkEntries : ensureLog[i].external /\ ensureLog[i].insp = "notfound"

(***************************************************************************)
(* Properties of repeated ensure calls.                                    *)
(***************************************************************************)
FirstCallCreatedNetwork ==
    /\ ensureLog # <<>>
    /\ ensureLog[1].kind = "network"
    /\ ~ensureLog[1].external
    /\ ensureLog[1].insp = "notfound"
    /\ ensureLog[1].createOk

NetworkCreateCalls == {c \in DOMAIN calls : c[1] = "NetworkCreate"}

\* C10: starting with the network absent, successive ensure calls with the
\* same non-external definition issue exactly one create call and leave
\* exactly one runtime network; every call after the first is a no-op.
C10_EnsureNetworkIdempotent ==
    FirstCallCreatedNetwork =>
        LET e1 == ensureLog[1] IN
        /\ Cardinality(NetworkCreateCalls) = 1
        /\ \A c \in NetworkCreateCalls : calls[c] = 1
        /\ Cardinality({r \in rtNetworks : r.labels = ResourceLabels(project.name, e1.key)}) = 1
        /\ EventsFor(e1) = <<"Creating", "Created">>
        /\ \A j \in 2..Len(ensureLog) :
               /\ ensureLog[j].name = e1.name
               /\ ensureLog[j].insp # "notfound"
               /\ ensureLog[j].err \in {"nil", "InspectError"}
               /\ ensureLog[j].insp = "ok" => ensureLog[j].err = "nil"

\* C10 witness: the first call created the network and a second call returned.
C10_Witness == FirstCallCreatedNetwork /\ Len(ensureLog) >= 2 /\ ensureLog[2].err = "nil"

(***************************************************************************)
(* Properties of Down.                                                     *)
(***************************************************************************)
StopCalls(id) == Count(calls, <<"ContainerStop", id>>)

RemoveCalls(id) == Count(calls, <<"ContainerRemove", id>>)

ContainersOf(s) == {c \in ContainerPool("-") \cup ContainerPool("compose.yaml") : c.project = DownProjectName /\ c.service = s}

StillThere(s) == \E c \in rtContainers : c.project = DownProjectName /\ c.service = s

\* C3: during Down, if service t depends on service s, no Stop call is
\* issued for a container of s until every container of t has been stopped
\* and removed.
C3_ReverseOrderStops ==
    LET deps == GraphOf(downProject) IN
    \A t \in DOMAIN deps : \A s \in deps[t] : \A c \in ContainersOf(s) :
        StopCalls(c.id) > 0 => ~StillThere(t)

WalkOver == downPc \in {"wait", "netwait", "done"} /\ \A s \in DOMAIN nodeState : nodeState[s] # "running"

\* C4: for every container removeContainers lists, Down issues exactly one
\* Stop call with its ID, followed if it succeeds by exactly one Remove call
\* with the same ID; no listed container is left without a Stop and none is
\* stopped or removed twice.
C4_OneStopOneRemove ==
    /\ \A id \in ContainerIds : StopCalls(id) <= 1 /\ RemoveCalls(id) <= StopCalls(id)
    /\ \A id \in ContainerIds \ listed : StopCalls(id) = 0
    /\ (WalkOver /\ AllUnitsDone) => \A id \in listed : StopCalls(id) = 1

(***************************************************************************)
(* Down: what is left and what was called when it returns.                 *)
(***************************************************************************)
DownReturned == downPc = "done"

DownSucceeded == DownReturned /\ downErr = "nil"

\* C11: when Down returns without error, the engine holds no network
\* labelled with the project.
C11_NoProjectNetworkLeft == DownSucceeded => ProjectNetworks(rtNetworks, DownProjectName) = {}

NetworkRemoveIssued == \E n \in {x.name : x \in NetworkPool} : Count(calls, <<"NetworkRemove", n>>) > 0

\* Every container of every listed service has had its function handed to
\* eg.Go, and every such function has returned.
EveryUnitFinished ==
    /\ \A s \in DOMAIN rcList : rcIdx[s] = Len(rcList[s])
    /\ \A u \in DOMAIN units : units[u].pc = "done"

ContainerTeardownFailed == \E u \in DOMAIN units : units[u].pc = "done" /\ "Error" \in {EventsOf(events, units[u].name)[i] : i \in DOMAIN EventsOf(events, units[u].name)}

\* C12: a NetworkRemove is issued only once every container unit has
\* finished, and none is issued when a ContainerStop or ContainerRemove failed.
C12_NetworksAfterContainers ==
    /\ NetworkRemoveIssued => EveryUnitFinished
    /\ ContainerTeardownFailed => ~NetworkRemoveIssued

C12_Witness == DownSucceeded /\ NetworkRemoveIssued /\ Cardinality(DOMAIN units) >= 2 /\ ~Present(rtNetworks, "p_front")

\* The Stop and Remove calls the engine has received, of any kind.
TeardownCalls(c) == {k \in DOMAIN c : k[1] \in {"ContainerStop", "ContainerRemove", "NetworkRemove"}}

\* Down is called while no container carries the project's label.
CalledOnEmptyProject == downPc = "list" /\ ProjectContainers(rtContainers, DownProjectName) = {}

\* C13: Down on a project no container is labelled with returns at once,
\* with nil when ContainerList answered, and has issued no Stop or Remove call.
C13_EmptyProjectIsSuccess == [][CalledOnEmptyProject => (downPc' = "done" /\ downErr' \in {"nil", "ListError"} /\ TeardownCalls(calls') = {})]_vars

C13_Witness == DownSucceeded /\ downProject.name = "" /\ Count(calls, <<"ContainerList", DownProjectName>>) = 1 /\ TeardownCalls(calls) = {} /\ rtContainers # {}

ContainerEvents(id) == EventsOf(events, "Container " \o id)

ReportedError(id) == \E i \in DOMAIN ContainerEvents(id) : ContainerEvents(id)[i] = "Error"

\* C14: an Error event names a container a call was issued on; a failed
\* Stop or Remove leaves no listed container without its Stop attempt; and
\* no Remove is issued on a container whose Stop failed.
C14_FailureIsPerContainer ==
    /\ \A id \in ContainerIds : ReportedError(id) => StopCalls(id) >= 1
    /\ (WalkOver /\ AllUnitsDone /\ ContainerTeardownFailed) => \A id \in listed : StopCalls(id) >= 1
    /\ \A id \in ContainerIds : ContainerEvents(id) = <<"Stopping", "Error">> => RemoveCalls(id) = 0

NetworkErrorEvents(ev, n) == Cardinality({i \in DOMAIN EventsOf(ev, "Network " \o n) : EventsOf(ev, "Network " \o n)[i] = "Error"})

UnitErrorEvents(ev, u) == Cardinality({i \in DOMAIN EventsOf(ev, units[u].name) : EventsOf(ev, units[u].name)[i] = "Error"})

\* The function u issues its ContainerStop or ContainerRemove in this step, on
\* a container the engine no longer holds.
CallsAbsentContainer(u) == units[u].pc \in {"stop", "remove"} /\ units'[u].pc # units[u].pc /\ ~\E c \in rtContainers : c.id = LoopVar(u).id

\* ensureNetworkDown of n issues its NetworkRemove in this step, on a network
\* the engine no longer holds.
CallsAbsentNetwork(n) == netUnits[n] = "launched" /\ netUnits'[n] = "done" /\ ~Present(rtNetworks, n)

\* C15: a Stop or Remove issued on a container or network that is already
\* gone adds no Error event and no error to what Down returns.
C15_AbsentTargetIsNoOp ==
    [][/\ \A u \in DOMAIN units : CallsAbsentContainer(u) => (UnitErrorEvents(events', u) = UnitErrorEvents(events, u) /\ egErr' = egErr)
       /\ \A n \in DOMAIN netUnits : CallsAbsentNetwork(n) => (NetworkErrorEvents(events', n) = NetworkErrorEvents(events, n) /\ egErr' = egErr)]_vars

\* The errors Down can return that an engine call produced.
EngineErrors == {"ListError", "StopError", "RemoveError", "NetworkListError", "NetworkRemoveError"}

\* C16: Down needs nothing but the labels: unless an engine call failed,
\* no container labelled with the project is left when Down has returned,
\* whether or not the recorded files can still be loaded.
C16_TeardownFromLabelsAlone == (DownReturned /\ downErr \notin EngineErrors) => ProjectContainers(rtContainers, DownProjectName) = {}

ServiceLabels(rt, p) == {c.service : c \in ProjectContainers(rt, p)}

ServiceEntries(p, s) == {i \in DOMAIN p.services : p.services[i].name = s}

\* Down holds the project built from the labels of containers whose recorded
\* config path is "-".
HoldsMinimalProject == downPc = "graph" /\ \E c \in ProjectContainers(rtContainers, DownProjectName) : ConfigPaths(c)[1] = "-"

\* C17: the minimal project has the requested name and exactly one Service
\* entry per distinct service label of the matching containers.
C17_OneEntryPerService ==
    HoldsMinimalProject =>
        /\ downProject.name = DownProjectName
        /\ \A i \in DOMAIN downProject.services : downProject.services[i].name \in ServiceLabels(rtContainers, DownProjectName)
        /\ \A s \in ServiceLabels(rtContainers, DownProjectName) : Cardinality(ServiceEntries(downProject, s)) = 1

(***************************************************************************)
(* The label codec.                                                        *)
(***************************************************************************)
\* C18: decoding the labels a project was encoded into yields the project's
\* name, its working directory and its source file list, element for element.
C18_LabelRoundTrip == options # <<>> => (options.Name = project.name /\ options.WorkingDir = project.workingDir /\ options.ConfigPaths = project.composeFiles)

(***************************************************************************)
(* Mount inheritance.                                                      *)
(***************************************************************************)
Rebuilt == upPc = "created" /\ ~inherit.nil

DeclaredTargets == {service.Volumes[i].Target : i \in DOMAIN service.Volumes}

PriorTargets == {inherit.Mounts[i].Destination : i \in DOMAIN inherit.Mounts}

ResultAt(t) == {j \in DOMAIN mounts : mounts[j].Target = t}

\* What the prior container holds at a mount: the volume for a volume mount,
\* the host path otherwise.
PriorSource(m) == IF m.Type = "volume" THEN <<m.Name>> ELSE m.Source

\* The source a definition declares: a relative bind source is relative to
\* the project's working directory.
DefinitionSource(v) == IF v.Type = "bind" /\ v.Source[1] # "/" THEN project.workingDir \o <<"/">> \o v.Source ELSE v.Source

\* C19: a target the prior container holds as a non-tmpfs mount and the
\* definition declares appears exactly once, with the prior container's
\* source; a target only the definition declares is added with the
\* definition's source; no tmpfs mount of the prior container is inherited.
C19_MountInheritance ==
    Rebuilt =>
        /\ \A i \in DOMAIN inherit.Mounts :
            LET m == inherit.Mounts[i] IN
            (m.Type # "tmpfs" /\ m.Destination \in DeclaredTargets) =>
                /\ Cardinality(ResultAt(m.Destination)) = 1
                /\ \A j \in ResultAt(m.Destination) : mounts[j].Type = m.Type /\ mounts[j].Source = PriorSource(m)
        /\ \A i \in DOMAIN service.Volumes :
            LET v == service.Volumes[i] IN
            v.Target \notin PriorTargets =>
                /\ Cardinality(ResultAt(v.Target)) = 1
                /\ \A j \in ResultAt(v.Target) : mounts[j].Type = v.Type /\ mounts[j].Source = DefinitionSource(v)
        /\ \A i \in DOMAIN inherit.Mounts :
            LET m == inherit.Mounts[i] IN
            m.Type = "tmpfs" =>
                \A j \in ResultAt(m.Destination) : \E k \in DOMAIN service.Volumes :
                    /\ service.Volumes[k].Target = m.Destination
                    /\ mounts[j].Type = service.Volumes[k].Type
                    /\ mounts[j].Source = DefinitionSource(service.Volumes[k])

\* The prior container holds a volume at /data and a tmpfs at /tmp; the
\* definition declares another volume at /data and a relative bind at /cache.
C19_Witness ==
    /\ Rebuilt
    /\ \E i \in DOMAIN inherit.Mounts : inherit.Mounts[i].Destination = "/data" /\ inherit.Mounts[i].Type = "volume"
    /\ \E i \in DOMAIN inherit.Mounts : inherit.Mounts[i].Destination = "/tmp" /\ inherit.Mounts[i].Type = "tmpfs"
    /\ \E i \in DOMAIN service.Volumes : service.Volumes[i].Target = "/data" /\ service.Volumes[i].Source = <<"W">>
    /\ \E i \in DOMAIN service.Volumes : service.Volumes[i].Target = "/cache" /\ service.Volumes[i].Source = <<"c">>
    /\ "/tmp" \notin DeclaredTargets
    /\ Len(mounts) = 2
    /\ mounts[1] = [Type |-> "volume", Source |-> <<"V">>, Target |-> "/data", ReadOnly |-> TRUE]
    /\ mounts[2] = [Type |-> "bind", Source |-> <<"/", "w", "/", "c">>, Target |-> "/cache", ReadOnly |-> TRUE]

\* C20: a mount only the prior container holds, with no declared volume at
\* its target, is not in the rebuilt mount list.
C20_PriorOnlyMountDropped == Rebuilt => \A i \in DOMAIN inherit.Mounts : inherit.Mounts[i].Destination \notin DeclaredTargets => ResultAt(inherit.Mounts[i].Destination) = {}

(***************************************************************************)
(* The executor in Up: every service once.                                 *)
(***************************************************************************)
\* The action of s is invoked in this step.
Invoked(s) == s \in DOMAIN nodeState' /\ nodeState'[s] = "running" /\ nodeState[s] # "running"

Finished(st, s) == st[s] \in {"done", "failed", "skipped"}

\* The walk returns in this step, no action having failed.
ReturnsAfterSuccess == upPc = "services" /\ upPc' = "done" /\ firstErr = "nil"

\* C21: an action is invoked only for a service whose action was never
\* invoked, a finished service stays finished, and when the walk of an
\* acyclic graph returns with no failed action every service is done and
\* the result is nil; with no service at all nothing is created.
C21_EveryServiceOnce ==
    [][/\ \A s \in DOMAIN nodeState : Invoked(s) => nodeState[s] = "pending"
       /\ \A s \in DOMAIN nodeState : (upPc = "services" /\ Finished(nodeState, s)) => nodeState'[s] = nodeState[s]
       /\ ReturnsAfterSuccess => (upErr' = "nil" /\ DOMAIN nodeState' = DOMAIN project.deps /\ \A s \in DOMAIN project.deps : nodeState'[s] = "done" /\ ServiceContainer(project, s) \in rtContainers')
       /\ (upPc \in {"graph", "services"} /\ DOMAIN project.deps = {}) => (upErr' = "nil" /\ rtContainers' = rtContainers /\ calls' = calls)]_vars

C21_Witness == upPc = "done" /\ upErr = "nil" /\ project.deps = Diamond /\ (\A s \in Services : nodeState[s] = "done") /\ Cardinality(rtContainers) = 4

(***************************************************************************)
(* Up and a missing external resource.                                     *)
(***************************************************************************)
\* The ensure calls made for an external network or volume the engine did
\* not hold.
MissingExternal == {i \in DOMAIN ensureLog : ensureLog[i].external /\ ensureLog[i].insp = "notfound"}

\* C22: once an external network or volume was found missing, Up has
\* returned an error, no service action was invoked and no container exists.
C22_MissingExternalStopsUp ==
    MissingExternal # {} =>
        /\ upPc = "done"
        /\ upErr # "nil"
        /\ \A i \in MissingExternal : ensureLog[i].err # "nil"
        /\ \A s \in DOMAIN nodeState : nodeState[s] = "pending"
        /\ rtContainers = {}

\* An external volume was missing after every network had been ensured.
C22_Witness == upPc = "done" /\ \E i \in MissingExternal : ensureLog[i].kind = "volume" /\ \A k \in NetKeys : EnsuredOk("network", k)

(***************************************************************************)
(* combinedStatus.                                                         *)
(***************************************************************************)
Listed == upPc = "listed"

DistinctStates == {statuses[i] : i \in DOMAIN statuses}

Occurrences(st) == Cardinality({i \in DOMAIN statuses : statuses[i] = st})

\* The distinct states in ascending order.
Ascending == CHOOSE ord \in Orderings(DistinctStates) : \A i, j \in DOMAIN ord : i < j => StringLess(ord[i], ord[j])

RECURSIVE CommaJoined(_)
CommaJoined(entries) ==
    IF entries = <<>> THEN <<>>
    ELSE IF Len(entries) = 1 THEN entries[1]
    ELSE entries[1] \o <<",", " ">> \o CommaJoined(Tail(entries))

RECURSIVE SumOver(_, _)
SumOver(f, S) == IF S = {} THEN 0 ELSE LET x == CHOOSE y \in S : TRUE IN f[x] + SumOver(f, S \ {x})

\* C23: the result is the ", "-joined list of state(count), one entry per
\* distinct state in ascending order, count being the number of
\* occurrences; the counts sum to the length of the list; and every
\* reordering of the list gives the same result.
C23_CombinedStatus ==
    Listed =>
        /\ combined = CommaJoined([i \in DOMAIN Ascending |-> Ascending[i] \o <<"(">> \o Decimal(Occurrences(Ascending[i])) \o <<")">>])
        /\ DOMAIN CountStatuses(statuses).nbByStatus = DistinctStates
        /\ SumOver(CountStatuses(statuses).nbByStatus, DistinctStates) = Len(statuses)
        /\ \A perm \in Orderings(DOMAIN statuses) : combinedStatus([i \in DOMAIN statuses |-> statuses[perm[i]]]) = combined

\* ["running", "running", "exited", "running"] gives "exited(1), running(3)".
C23_Witness ==
    /\ Listed
    /\ statuses = <<Running, Running, Exited, Running>>
    /\ combined = <<"e", "x", "i", "t", "e", "d", "(", "1", ")", ",", " ", "r", "u", "n", "n", "i", "n", "g", "(", "3", ")">>

(***************************************************************************)
(* Down and the functions it handed to eg.Go.                              *)
(***************************************************************************)
UnitsInFlight == {u \in DOMAIN units : units[u].pc # "done"}

\* C24: when Down has returned, with or without an error, none of the
\* container functions it launched is still in flight.
C24_NoUnitInFlightAfterReturn == DownReturned => UnitsInFlight = {}

====
